---------------------------- MODULE Spec2Model ----------------------------
(***************************************************************************)
(* Anchor generation, ground-truth matching, regression-target encoding    *)
(* and anchor sampling of ToothImageDataset (dataset.py).                  *)
(*                                                                         *)
(* Units.  Anchor coordinates are multiples of 0.1 pixel (the ratios are   *)
(* 0.3, 0.5, 1.0 and every other constant is an integer), so lengths are   *)
(* kept in TENTHS of a pixel and ratios and thresholds in tenths; all      *)
(* arithmetic is then exact integer / rational arithmetic.                 *)
(*                                                                         *)
(* Arrays.  A numpy array is modelled as its C-order flattening, a         *)
(* sequence; element [x, y, k] of an array of shape (GridW, GridH, n) is   *)
(* at flat index (x * GridH + y) * n + k, one less than its position in    *)
(* the sequence.                                                           *)
(***************************************************************************)
EXTENDS Integers, Sequences, FiniteSets

VARIABLES pc,                \* position inside __getitem__
          bboxes,            \* ground-truth boxes, pixels (get_truth_bboxes)
          anchors,           \* anchor grid, tenths of a pixel
          truth_bbox,        \* matched box per anchor, pixels
          positives,         \* boolean mask per anchor
          negatives,         \* boolean mask per anchor
          reg_target,        \* regression target per anchor
          indices,           \* flat anchor indices 0 .. n-1
          selected_indices,  \* the sample
          positive_indices   \* all positive indices

vars == <<pc, bboxes, anchors, truth_bbox, positives, negatives, reg_target,
          indices, selected_indices, positive_indices>>

---------------------------------------------------------------------------
(* Class constants *)

INPUT_SIZE == <<1600, 800>>
OUTPUT_SIZE == <<50, 25>>
OUTPUT_CELL_SIZE == INPUT_SIZE[1] \div OUTPUT_SIZE[1]
RECEPTIVE_FIELD == 212
\* ratios in tenths: 0.3, 0.5, 1.0
ANCHORS_WIDTH_RATIOS == <<3, 5, 10>>
ANCHORS_HEIGHT_RATIOS == <<3, 5, 10>>
NUMBER_ANCHORS_WIDE == OUTPUT_SIZE[1]
NUMBER_ANCHORS_HEIGHT == OUTPUT_SIZE[2]
\* thresholds in tenths: 0.3, 0.5
NEGATIVE_THRESHOLD == 3
POSITIVE_THRESHOLD == 5
ANCHOR_SAMPLING_SIZE == 256

---------------------------------------------------------------------------
(* Bounds of the model *)

\* the pipeline is run on the sub-grid [0, MaxGridX) x [0, MaxGridY) of cells
MaxGridX == 3
MaxGridY == 3
\* at most this many ground-truth boxes per image
MaxBoxes == 2
\* the random permutations drawn are rotations by 0 .. MaxShift, reversed or not
MaxShift == 1
\* number of anchors handed to the sampler when its masks are inputs
SamplerAnchors == 260

Min(a, b) == IF a <= b THEN a ELSE b
Max(a, b) == IF a >= b THEN a ELSE b

GridW == Min(NUMBER_ANCHORS_WIDE, MaxGridX)
GridH == Min(NUMBER_ANCHORS_HEIGHT, MaxGridY)

---------------------------------------------------------------------------
(* Anchor grid *)

RECURSIVE ConcatAll(_)
ConcatAll(ss) == IF ss = <<>> THEN <<>> ELSE Head(ss) \o ConcatAll(Tail(ss))

\* mutant: the two loops nested the other way round
get_anchor_dimensions_swapped ==
    ConcatAll([hi \in 1..Len(ANCHORS_HEIGHT_RATIOS) |->
                 [wi \in 1..Len(ANCHORS_WIDTH_RATIOS) |->
                    <<ANCHORS_WIDTH_RATIOS[wi], ANCHORS_HEIGHT_RATIOS[hi]>>]])

\* for w in WIDTH_RATIOS: for h in HEIGHT_RATIOS: dimensions.append((w, h))
get_anchor_dimensions ==
    ConcatAll([wi \in 1..Len(ANCHORS_WIDTH_RATIOS) |->
                 [hi \in 1..Len(ANCHORS_HEIGHT_RATIOS) |->
                    <<ANCHORS_WIDTH_RATIOS[wi], ANCHORS_HEIGHT_RATIOS[hi]>>]])

anchor_dimensions == get_anchor_dimensions
anchor_number == Len(anchor_dimensions)

NumAnchors == GridW * GridH * anchor_number

\* the anchors of cell (x, y): one box <<x_min, y_min, x_max, y_max>> per shape
get_anchors_at_position(x, y) ==
    [i \in 1..anchor_number |->
        LET center_x == OUTPUT_CELL_SIZE * (10 * x + 5)
            center_y == OUTPUT_CELL_SIZE * (10 * y + 5)
            width  == anchor_dimensions[i][1] * RECEPTIVE_FIELD
            height == anchor_dimensions[i][2] * RECEPTIVE_FIELD
            top_x == center_x - width \div 2
            top_y == center_y - height \div 2
        IN  <<top_x, top_y, top_x + width, top_y + height>>]

get_image_anchors ==
    ConcatAll([i \in 1..GridW |->
                 ConcatAll([j \in 1..GridH |-> get_anchors_at_position(i - 1, j - 1)])])

---------------------------------------------------------------------------
(* Floating-point values of the regression target.                         *)
(* k = "rat": the rational n/d (d > 0, lowest terms); "log": the natural   *)
(* logarithm of the positive rational n/d # 1; "nan", "pinf", "ninf": the  *)
(* IEEE specials; "fmax", "fmin": the largest and the most negative finite *)
(* float32.                                                                *)

RECURSIVE GCD(_, _)
GCD(a, b) == IF b = 0 THEN a ELSE GCD(b, a % b)
Abs(a) == IF a < 0 THEN -a ELSE a

Special(kind) == [k |-> kind, n |-> 0, d |-> 1]
NaN == Special("nan")
PosInf == Special("pinf")
NegInf == Special("ninf")
FloatMax == Special("fmax")
FloatMin == Special("fmin")
Rat(n, d) ==
    LET g == GCD(Abs(n), Abs(d))
        s == IF d < 0 THEN -1 ELSE 1
    IN  [k |-> "rat", n |-> (s * n) \div g, d |-> (s * d) \div g]
Zero == Rat(0, 1)

IsFinite(v) == v.k \in {"rat", "log", "fmax", "fmin"}

\* numpy true division of two exact numbers n / d
Div(n, d) ==
    IF d # 0 THEN Rat(n, d)
    ELSE IF n = 0 THEN NaN
    ELSE IF n > 0 THEN PosInf ELSE NegInf

\* mutant: log(0) taken to be 0
LogZeroIsZero(v) ==
    CASE v.k = "rat" /\ v.n < 0 -> NaN
      [] v.k = "rat" /\ v.n = 0 -> Zero
      [] v.k = "rat" /\ v.n = v.d -> Zero
      [] v.k = "rat" -> [v EXCEPT !.k = "log"]
      [] v.k = "pinf" -> PosInf
      [] OTHER -> NaN

\* np.log
Log(v) ==
    CASE v.k = "rat" /\ v.n < 0 -> NaN
      [] v.k = "rat" /\ v.n = 0 -> NegInf
      [] v.k = "rat" /\ v.n = v.d -> Zero
      [] v.k = "rat" -> [v EXCEPT !.k = "log"]
      [] v.k = "pinf" -> PosInf
      [] OTHER -> NaN

\* mutant: the infinities are left in place
nan_to_num_nan_only(v) == IF v.k = "nan" THEN Zero ELSE v

\* mutant: every non-finite value becomes 0
nan_to_num_all_zero(v) == IF v.k \in {"nan", "pinf", "ninf"} THEN Zero ELSE v

\* np.nan_to_num on one float32: NaN -> 0, +inf -> largest finite value,
\* -inf -> most negative finite value
nan_to_num(v) ==
    CASE v.k = "nan" -> Zero
      [] v.k = "pinf" -> FloatMax
      [] v.k = "ninf" -> FloatMin
      [] OTHER -> v

---------------------------------------------------------------------------
(* IoU (utils.IoU): intersection area over union area of box a, in tenths  *)
(* of a pixel, and ground-truth box b, in pixels; the rational <<n, d>>.   *)

IoU(a, b) ==
    LET w == Max(0, Min(a[3], 10 * b[3]) - Max(a[1], 10 * b[1]))
        h == Max(0, Min(a[4], 10 * b[4]) - Max(a[2], 10 * b[2]))
        inter == w * h
        area_a == (a[3] - a[1]) * (a[4] - a[2])
        area_b == (10 * b[3] - 10 * b[1]) * (10 * b[4] - 10 * b[2])
        union == area_a + area_b - inter
    IN  IF inter = 0 \/ union <= 0 THEN <<0, 1>> ELSE <<inter, union>>

\* a/b < c/d for a, c >= 0 and b, d > 0, by comparing the continued
\* fractions (cross-multiplying would leave the range of the integers)
RECURSIVE FracLess(_, _, _, _)
FracLess(a, b, c, d) ==
    IF a \div b # c \div d THEN a \div b < c \div d
    ELSE IF c % d = 0 THEN FALSE
    ELSE IF a % b = 0 THEN TRUE
    ELSE FracLess(d, c % d, b, a % b)

\* p < q for rationals <<n, d>> with n >= 0, d > 0
RatLess(p, q) == FracLess(p[1], p[2], q[1], q[2])

---------------------------------------------------------------------------
(* Ground-truth matcher *)

\* mutant: the comparison made non-strict
AboveThresholdOrEqual(iou, t) == 10 * iou[1] >= t * iou[2]

\* iou > t, t in tenths
AboveThreshold(iou, t) == 10 * iou[1] > t * iou[2]

\* mutant: the comparison made non-strict
BelowThresholdOrEqual(iou, t) == 10 * iou[1] <= t * iou[2]

\* mutant: the comparison turned round
BelowThresholdFlipped(iou, t) == 10 * iou[1] > t * iou[2]

\* iou < t, t in tenths
BelowThreshold(iou, t) == 10 * iou[1] < t * iou[2]

\* np.argmax over a non-empty sequence of rationals: first index of the maximum
RECURSIVE ArgMaxFrom(_, _, _)
ArgMaxFrom(row, best, b) ==
    IF b > Len(row) THEN best
    ELSE ArgMaxFrom(row, IF RatLess(row[best], row[b]) THEN b ELSE best, b + 1)
ArgMax(row) == ArgMaxFrom(row, 1, 2)

\* np.amax over a non-empty sequence of rationals
RECURSIVE AMaxFrom(_, _, _)
AMaxFrom(row, best, b) ==
    IF b > Len(row) THEN best
    ELSE AMaxFrom(row, IF RatLess(best, row[b]) THEN row[b] ELSE best, b + 1)
AMax(row) == AMaxFrom(row, row[1], 2)

\* returns <<truth_bbox, positives, negatives>>
get_positive_negative_anchors(anch, boxes) ==
    IF Len(boxes) = 0
    THEN LET ious == [i \in 1..NumAnchors |-> <<0, 1>>]
         IN  << <<>>,
                [i \in 1..NumAnchors |-> AboveThreshold(ious[i], POSITIVE_THRESHOLD)],
                [i \in 1..NumAnchors |-> BelowThreshold(ious[i], NEGATIVE_THRESHOLD)] >>
    ELSE LET ious == [i \in 1..Len(anch) |->
                        [b \in 1..Len(boxes) |-> IoU(anch[i], boxes[b])]]
             arg_truth_bbox == [i \in 1..Len(anch) |-> ArgMax(ious[i])]
             max_iou_per_anchor == [i \in 1..Len(anch) |-> AMax(ious[i])]
         IN  << [i \in 1..Len(anch) |-> boxes[arg_truth_bbox[i]]],
                [i \in 1..Len(anch) |->
                    AboveThreshold(max_iou_per_anchor[i], POSITIVE_THRESHOLD)],
                [i \in 1..Len(anch) |->
                    BelowThreshold(max_iou_per_anchor[i], NEGATIVE_THRESHOLD)] >>

---------------------------------------------------------------------------
(* Target parametrizer *)

Zero4 == <<Zero, Zero, Zero, Zero>>

\* mutant: dx taken from the box's x_max
Encode_xmax(a, g) ==
    << Div(10 * g[3] - a[1], a[3] - a[1]),
       Div(10 * g[2] - a[2], a[4] - a[2]),
       Log(Div(10 * g[3] - 10 * g[1], a[3] - a[1])),
       Log(Div(10 * g[4] - 10 * g[2], a[4] - a[2])) >>

\* the four components for one anchor a (tenths) and its matched box g (pixels)
Encode(a, g) ==
    << Div(10 * g[1] - a[1], a[3] - a[1]),
       Div(10 * g[2] - a[2], a[4] - a[2]),
       Log(Div(10 * g[3] - 10 * g[1], a[3] - a[1])),
       Log(Div(10 * g[4] - 10 * g[2], a[4] - a[2])) >>

parametrize(anch, boxes) ==
    IF Len(boxes) = 0
    THEN [i \in 1..Len(anch) |-> Zero4]
    ELSE [i \in 1..Len(anch) |->
            LET e == Encode(anch[i], boxes[i])
            IN  <<nan_to_num(e[1]), nan_to_num(e[2]),
                  nan_to_num(e[3]), nan_to_num(e[4])>>]

---------------------------------------------------------------------------
(* Anchor sampler *)

\* arr[mask] for a boolean mask: the elements at the True positions, in
\* order (positions lo .. hi, halved so that the evaluation stays shallow)
RECURSIVE MaskSelectFrom(_, _, _, _)
MaskSelectFrom(arr, mask, lo, hi) ==
    IF lo > hi THEN <<>>
    ELSE IF lo = hi THEN (IF mask[lo] THEN <<arr[lo]>> ELSE <<>>)
    ELSE LET mid == (lo + hi) \div 2
         IN  MaskSelectFrom(arr, mask, lo, mid) \o MaskSelectFrom(arr, mask, mid + 1, hi)
MaskSelect(arr, mask) == MaskSelectFrom(arr, mask, 1, Len(arr))

\* One outcome of np.random.permutation(arr): arr rotated left by shift
\* places, then reversed when rev.  Every value is a permutation of arr.
Permutation(arr, shift, rev) ==
    LET n == Len(arr)
        rot == [i \in 1..n |-> arr[((i - 1 + shift) % n) + 1]]
    IN  IF rev THEN [i \in 1..n |-> rot[n + 1 - i]] ELSE rot

\* arr[:count], count >= 0
Take(arr, count) == SubSeq(arr, 1, Min(count, Len(arr)))

\* mutant: the negatives are everything that is not positive
negative_indices_not_positive(ind, pos, neg) ==
    MaskSelect(ind, [i \in 1..Len(pos) |-> ~pos[i]])

\* indices[negatives.reshape(-1)]
negative_indices_of(ind, pos, neg) == MaskSelect(ind, neg)

\* mutant: the negatives always fill half of the budget
negative_quota_half(taken) == ANCHOR_SAMPLING_SIZE \div 2

\* ANCHOR_SAMPLING_SIZE - len(random_positives)
negative_quota(taken) == ANCHOR_SAMPLING_SIZE - taken

\* mutant: the positives may fill the whole budget
positive_quota_full == ANCHOR_SAMPLING_SIZE

\* ANCHOR_SAMPLING_SIZE // 2
positive_quota == ANCHOR_SAMPLING_SIZE \div 2

\* returns <<selected_indices, positive_indices>>; (s1, r1) and (s2, r2) are
\* the outcomes of the two random permutations
get_selected_indices_sample(ind, pos, neg, s1, r1, s2, r2) ==
    LET pos_ind == MaskSelect(ind, pos)
        neg_ind == negative_indices_of(ind, pos, neg)
        random_positives ==
            Take(Permutation(pos_ind, s1, r1), positive_quota)
        random_negatives ==
            Take(Permutation(neg_ind, s2, r2), negative_quota(Len(random_positives)))
    IN  <<random_positives \o random_negatives, pos_ind>>

---------------------------------------------------------------------------
(* Inputs *)

\* ground-truth boxes <<x_min, y_min, x_max, y_max>> in pixels: the box of
\* the 106 x 106 anchor of cell (2, 2); a box overlapping the 106 x 106
\* anchor of cell (0, 0) with IoU 0.3; a zero-width and a zero-area box; a
\* box far from the modelled cells; a malformed annotation with
\* x_max < x_min and zero height
GroundTruthCandidates ==
    { <<27, 27, 133, 133>>, <<3, 0, 77, 53>>, <<27, 27, 27, 133>>,
      <<50, 50, 50, 50>>, <<1000, 500, 1200, 700>>, <<133, 27, 27, 27>> }

BoxLists == UNION {[1..n -> GroundTruthCandidates] : n \in 0..MaxBoxes}

Shifts == 0..MaxShift

Range(n) == [i \in 1..n |-> i - 1]

---------------------------------------------------------------------------
(* __getitem__: one image through the pipeline *)

Init ==
    /\ pc = "get_image_anchors"
    /\ bboxes \in BoxLists
    /\ anchors = <<>>
    /\ truth_bbox = <<>>
    /\ positives = <<>>
    /\ negatives = <<>>
    /\ reg_target = <<>>
    /\ indices = <<>>
    /\ selected_indices = <<>>
    /\ positive_indices = <<>>

GetImageAnchors ==
    /\ pc = "get_image_anchors"
    /\ anchors' = get_image_anchors
    /\ pc' = "get_positive_negative_anchors"
    /\ UNCHANGED <<bboxes, truth_bbox, positives, negatives, reg_target,
                   indices, selected_indices, positive_indices>>

GetPositiveNegativeAnchors ==
    /\ pc = "get_positive_negative_anchors"
    /\ LET r == get_positive_negative_anchors(anchors, bboxes)
       IN  /\ truth_bbox' = r[1]
           /\ positives' = r[2]
           /\ negatives' = r[3]
    /\ pc' = "parametrize"
    /\ UNCHANGED <<bboxes, anchors, reg_target, indices, selected_indices,
                   positive_indices>>

Parametrize ==
    /\ pc = "parametrize"
    /\ reg_target' = parametrize(anchors, truth_bbox)
    /\ indices' = Range(Len(anchors))
    /\ pc' = "get_selected_indices_sample"
    /\ UNCHANGED <<bboxes, anchors, truth_bbox, positives, negatives,
                   selected_indices, positive_indices>>

GetSelectedIndicesSample ==
    /\ pc = "get_selected_indices_sample"
    /\ \E s1 \in Shifts, s2 \in Shifts, r1 \in BOOLEAN, r2 \in BOOLEAN :
          LET r == get_selected_indices_sample(indices, positives, negatives,
                                               s1, r1, s2, r2)
          IN  /\ selected_indices' = r[1]
              /\ positive_indices' = r[2]
    /\ pc' = "done"
    /\ UNCHANGED <<bboxes, anchors, truth_bbox, positives, negatives,
                   reg_target, indices>>

Next ==
    \/ GetImageAnchors
    \/ GetPositiveNegativeAnchors
    \/ Parametrize
    \/ GetSelectedIndicesSample

Spec == Init /\ [][Next]_vars

---------------------------------------------------------------------------
(* get_selected_indices_sample on its own: the masks are inputs *)

\* numbers of positive and of negative anchors tried
PositiveCounts ==
    {0, 1, ANCHOR_SAMPLING_SIZE \div 2 - 1, ANCHOR_SAMPLING_SIZE \div 2,
     ANCHOR_SAMPLING_SIZE \div 2 + 1}
NegativeCounts ==
    PositiveCounts \cup {ANCHOR_SAMPLING_SIZE - 1, ANCHOR_SAMPLING_SIZE}
Strides == {1, 7}

\* label of flat index i: the indices are walked with the given stride and
\* offset; the first p met are positive, the next m negative, the rest ignored
LabelAt(i, p, m, stride, off) ==
    LET j == (i * stride + off) % SamplerAnchors
    IN  IF j < p THEN "positive" ELSE IF j < p + m THEN "negative" ELSE "ignored"

InitSampler ==
    /\ pc = "get_selected_indices_sample"
    /\ bboxes = <<>>
    /\ anchors = <<>>
    /\ truth_bbox = <<>>
    /\ reg_target = <<>>
    /\ indices = Range(SamplerAnchors)
    /\ \E p \in PositiveCounts, m \in NegativeCounts,
          stride \in Strides, off \in Shifts :
          /\ p + m <= SamplerAnchors
          /\ positives = [i \in 1..SamplerAnchors |->
                            LabelAt(i - 1, p, m, stride, off) = "positive"]
          /\ negatives = [i \in 1..SamplerAnchors |->
                            LabelAt(i - 1, p, m, stride, off) = "negative"]
    /\ selected_indices = <<>>
    /\ positive_indices = <<>>

NextSampler == GetSelectedIndicesSample

SpecSampler == InitSampler /\ [][NextSampler]_vars

---------------------------------------------------------------------------
(* Vocabulary of the properties *)

Labelled == pc \in {"parametrize", "get_selected_indices_sample", "done"}
Encoded == pc \in {"get_selected_indices_sample", "done"} /\ reg_target # <<>>
Sampled == pc = "done"

Count(mask) == Cardinality({i \in 1..Len(mask) : mask[i]})
\* how many entries of the sample are indices at which mask is True
CountSelected(mask) ==
    Cardinality({j \in 1..Len(selected_indices) : mask[selected_indices[j] + 1]})
NoDuplicates(seq) ==
    \A i, j \in 1..Len(seq) : seq[i] = seq[j] => i = j

\* the largest IoU of anchor i with a ground-truth box, 0 when there is none
MaxIoU(i) ==
    LET all == {IoU(anchors[i], bboxes[b]) : b \in 1..Len(bboxes)}
    IN  IF all = {} THEN <<0, 1>>
        ELSE CHOOSE v \in all : \A w \in all : ~RatLess(v, w)
InIgnoredBand(i) ==
    LET m == MaxIoU(i)
    IN  ~(2 * m[1] > m[2]) /\ ~(10 * m[1] < 3 * m[2])

ValidBox(b) == b[3] >= b[1] /\ b[4] >= b[2]
SameBox(a, b) == \A c \in 1..4 : a[c] = 10 * b[c]

---------------------------------------------------------------------------
(* Properties *)

\* C1: with a budget of 256, at least 128 positive and at least 128
\* negative anchors, whatever the two permutations, the sample holds exactly
\* 128 indices of positive anchors and exactly 128 of negative anchors, no
\* index twice, every index within [0, number of anchors), and the positive
\* index set returned beside it has one entry per positive anchor.
C1_BalancedSample ==
    (Sampled /\ ANCHOR_SAMPLING_SIZE = 256
       /\ Count(positives) >= 128 /\ Count(negatives) >= 128)
    => /\ CountSelected(positives) = 128
       /\ CountSelected(negatives) = 128
       /\ Len(selected_indices) = 256
       /\ NoDuplicates(selected_indices)
       /\ \A j \in 1..Len(selected_indices) :
             selected_indices[j] >= 0 /\ selected_indices[j] < Len(indices)
       /\ Len(positive_indices) = Count(positives)
       /\ \A j \in 1..Len(positive_indices) : positives[positive_indices[j] + 1]

\* C1 witness: a sample drawn from more than 128 positives and more than 128
\* negatives, so that both permutations are cut.
C1_Witness ==
    /\ Sampled
    /\ Count(positives) > 128
    /\ Count(negatives) > 128
    /\ Len(selected_indices) = 256

\* C2: with P positive and M negative anchors the sample holds min(P, N/2)
\* positives and min(M, N - positives taken) negatives; its size never
\* exceeds N, is exactly N whenever M >= N - min(P, N/2), and is 0 when
\* P = 0 and M = 0.
C2_SampleSizes ==
    Sampled =>
      LET P == Count(positives)
          M == Count(negatives)
          N == ANCHOR_SAMPLING_SIZE
          taken == CountSelected(positives)
      IN  /\ taken = Min(P, N \div 2)
          /\ CountSelected(negatives) = Min(M, N - taken)
          /\ Len(selected_indices) = taken + CountSelected(negatives)
          /\ Len(selected_indices) <= N
          /\ (M >= N - Min(P, N \div 2) => Len(selected_indices) = N)
          /\ (P = 0 /\ M = 0 => Len(selected_indices) = 0)

\* C2 witness: positives are scarce and the negatives fill the budget up.
C2_Witness ==
    /\ Sampled
    /\ Count(positives) > 0
    /\ Count(positives) < ANCHOR_SAMPLING_SIZE \div 2
    /\ CountSelected(negatives) > ANCHOR_SAMPLING_SIZE \div 2
    /\ Len(selected_indices) = ANCHOR_SAMPLING_SIZE

\* C3: an anchor whose largest IoU is neither above the positive threshold
\* nor below the negative threshold is in neither mask, and its flat index
\* is never in the sample.
C3_IgnoredNeverSampled ==
    \A i \in 1..Len(anchors) :
       (Labelled /\ InIgnoredBand(i))
       => /\ ~positives[i]
          /\ ~negatives[i]
          /\ Sampled => \A j \in 1..Len(selected_indices) :
                            selected_indices[j] # i - 1

\* C3 witness: a sample has been drawn while some anchor is in the ignored band.
C3_Witness ==
    /\ Sampled
    /\ anchors # <<>>
    /\ Len(selected_indices) > 0
    /\ \E i \in 1..Len(anchors) : InIgnoredBand(i)

\* C4: an anchor is positive exactly when its largest IoU is strictly above
\* 0.5 and negative exactly when it is strictly below 0.3; one at exactly
\* 0.5 is not positive, one at exactly 0.3 is not negative, none is both.
C4_StrictThresholds ==
    Labelled =>
      \A i \in 1..Len(anchors) :
         LET m == MaxIoU(i)
             n == m[1]
             d == m[2]
         IN  /\ positives[i] <=> 2 * n > d
             /\ negatives[i] <=> 10 * n < 3 * d
             /\ 2 * n = d => ~positives[i]
             /\ 10 * n = 3 * d => ~negatives[i]
             /\ ~(positives[i] /\ negatives[i])

\* C4 witness: one anchor sits at exactly 0.5 and another at exactly 0.3.
C4_Witness ==
    /\ Labelled
    /\ anchors # <<>>
    /\ \E i \in 1..Len(anchors) : LET m == MaxIoU(i) IN 2 * m[1] = m[2]
    /\ \E i \in 1..Len(anchors) : LET m == MaxIoU(i) IN 10 * m[1] = 3 * m[2]

\* C5: with no ground-truth box every anchor is negative and none positive,
\* and the regression target has one all-zero 4-vector per anchor.
C5_NoBoxes ==
    (anchors # <<>> /\ Len(bboxes) = 0)
    => /\ Labelled =>
            /\ Len(positives) = NumAnchors
            /\ Len(negatives) = NumAnchors
            /\ \A i \in 1..NumAnchors : ~positives[i] /\ negatives[i]
       /\ pc \in {"get_selected_indices_sample", "done"} =>
            /\ Len(reg_target) = Len(anchors)
            /\ \A i \in 1..Len(anchors) : reg_target[i] = Zero4

\* C5 witness: an image without boxes has gone through the pipeline.
C5_Witness ==
    /\ Sampled
    /\ anchors # <<>>
    /\ bboxes = <<>>
    /\ Len(reg_target) = NumAnchors

\* C6: when the only ground-truth box has the coordinates of an anchor, that
\* anchor has IoU 1, is positive, is matched to the box and gets the
\* regression target (0, 0, 0, 0).
C6_BoxOnAnchor ==
    \A i \in 1..Len(anchors) :
       (Len(bboxes) = 1 /\ SameBox(anchors[i], bboxes[1]))
       => /\ Labelled =>
               /\ LET m == MaxIoU(i) IN m[1] = m[2]
               /\ positives[i]
               /\ truth_bbox[i] = bboxes[1]
          /\ Encoded => reg_target[i] = Zero4

\* C6 witness: the target has been computed for a box lying on an anchor.
C6_Witness ==
    /\ Encoded
    /\ Len(bboxes) = 1
    /\ \E i \in 1..Len(anchors) : SameBox(anchors[i], bboxes[1])

C8_TargetFinite ==
    pc \in {"get_selected_indices_sample", "done"}
    => /\ Len(reg_target) = Len(anchors)
       /\ \A i \in 1..Len(reg_target) : \A c \in 1..4 : IsFinite(reg_target[i][c])

\* C8 witness: a target computed from a matched box of zero width and
\* zero height, all four components finite.
C8_Witness ==
    /\ Encoded
    /\ Len(bboxes) > 0
    /\ \E i \in 1..Len(anchors) :
          /\ truth_bbox[i][3] = truth_bbox[i][1]
          /\ truth_bbox[i][4] = truth_bbox[i][2]
          /\ \A c \in 1..4 : IsFinite(reg_target[i][c])

\* C9 as claimed: with a non-empty box list, every anchor that is not
\* positive has the regression target (0, 0, 0, 0).
C9_Claimed_ZeroUnlessPositive ==
    (Encoded /\ Len(bboxes) > 0)
    => \A i \in 1..Len(anchors) : ~positives[i] => reg_target[i] = Zero4

\* C9 amended: with a non-empty list of boxes having x_max >= x_min and
\* y_max >= y_min, the target is computed for every anchor whatever its
\* label and is not zeroed for negative or ignored anchors: it is
\* (0, 0, 0, 0) exactly when the matched box is the anchor's own box, dx is 0
\* exactly when the two x_min agree and dy exactly when the two y_min agree.
C9_TargetOfEveryAnchor ==
    (Encoded /\ Len(bboxes) > 0 /\ \A b \in 1..Len(bboxes) : ValidBox(bboxes[b]))
    => \A i \in 1..Len(anchors) :
          /\ reg_target[i] = Zero4 <=> SameBox(anchors[i], truth_bbox[i])
          /\ reg_target[i][1] = Zero <=> 10 * truth_bbox[i][1] = anchors[i][1]
          /\ reg_target[i][2] = Zero <=> 10 * truth_bbox[i][2] = anchors[i][2]

\* C9 witness: a negative and an ignored anchor both carry a non-zero target.
C9_Witness ==
    /\ Encoded
    /\ Len(bboxes) > 0
    /\ \A b \in 1..Len(bboxes) : ValidBox(bboxes[b])
    /\ \E i \in 1..Len(anchors) : negatives[i] /\ reg_target[i] # Zero4
    /\ \E i \in 1..Len(anchors) :
          ~negatives[i] /\ ~positives[i] /\ reg_target[i] # Zero4

\* C10: the grid has exactly W * H * num_shapes anchors; the anchor at
\* (x, y, k) has shape (width_ratios[k div |height_ratios|],
\* height_ratios[k mod |height_ratios|]) and is the unclamped box centred at
\* (cell_size * (x + 0.5), cell_size * (y + 0.5)) of width wr * receptive_field
\* and height hr * receptive_field; every generation gives this same grid.
C10_AnchorGrid ==
    anchors # <<>>
    => LET nh == Len(ANCHORS_HEIGHT_RATIOS)
           ns == Len(ANCHORS_WIDTH_RATIOS) * nh
       IN  /\ Len(anchors) = GridW * GridH * ns
           /\ \A x \in 0..GridW - 1 : \A y \in 0..GridH - 1 : \A k \in 0..ns - 1 :
                 LET a == anchors[(x * GridH + y) * ns + k + 1]
                     w == ANCHORS_WIDTH_RATIOS[(k \div nh) + 1] * RECEPTIVE_FIELD
                     h == ANCHORS_HEIGHT_RATIOS[(k % nh) + 1] * RECEPTIVE_FIELD
                 IN  /\ a[3] - a[1] = w
                     /\ a[4] - a[2] = h
                     /\ a[1] + a[3] = OUTPUT_CELL_SIZE * (20 * x + 10)
                     /\ a[2] + a[4] = OUTPUT_CELL_SIZE * (20 * y + 10)

\* C10 witness: a generated grid with an anchor reaching outside the frame
\* and two shapes that differ only in the order of their ratios.
C10_Witness ==
    /\ anchors # <<>>
    /\ \E i \in 1..Len(anchors) : anchors[i][1] < 0
    /\ \E i, j \in 1..Len(anchors) :
          /\ anchors[i][3] - anchors[i][1] = anchors[j][4] - anchors[j][2]
          /\ anchors[i][4] - anchors[i][2] = anchors[j][3] - anchors[j][1]
          /\ anchors[i][3] - anchors[i][1] # anchors[i][4] - anchors[i][2]

=============================================================================
